---- MODULE Spec2Model ----
(***************************************************************************)
(* Model of the NI job matcher: the aggregation and scoring engine of      *)
(* job_source.py (fetch_all_jobs, score_jobs) and the Streamlit draft      *)
(* app.py (fetchers, link/title de-duplication, rank_jobs).                *)
(*                                                                         *)
(* A text is a sequence of words; a word is a maximal run of non-blank     *)
(* characters.  Substring tests of the code ("civil service" in text) are  *)
(* modelled as contiguous word-sequence containment, which agrees with the *)
(* character test on the vocabulary used here (no word of the vocabulary   *)
(* contains another one or a blank).                                       *)
(***************************************************************************)
EXTENDS Integers, Sequences, FiniteSets, TLC

\* ------------------------------------------------------------------------
\* Bounds of the model
\* ------------------------------------------------------------------------
\* entries on the NIJobs page
MaxPage == 2

\* entries in the Indeed feed
MaxEntries == 1

\* anchors on the NICS page, entries in a Careerjet feed
MaxFeed == 1

\* ------------------------------------------------------------------------
\* Generic helpers
\* ------------------------------------------------------------------------
Range(s) == {s[i] : i \in 1..Len(s)}

Min(a, b) == IF a <= b THEN a ELSE b

Max(a, b) == IF a >= b THEN a ELSE b

\* s[1..n] of Python slicing s[:n]
Take(s, n) == SubSeq(s, 1, Min(n, Len(s)))

\* all sequences over S of length 0..n
SeqsUpTo(S, n) == UNION {[1..k -> S] : k \in 0..n}

\* " ".join / f-string concatenation of texts, each a word sequence
RECURSIVE Concat(_)
Concat(ss) == IF ss = <<>> THEN <<>> ELSE Head(ss) \o Concat(Tail(ss))

\* the phrase (a word sequence) occurs contiguously in the text
Contains(text, phrase) ==
    \E i \in 0..(Len(text) - Len(phrase)) :
        \A k \in 1..Len(phrase) : text[i + k] = phrase[k]

\* ------------------------------------------------------------------------
\* job_source.py: text helpers
\* ------------------------------------------------------------------------
\* The words of the model in Python's string order (upper case before lower
\* case, digits before letters), so that sorted() is the order of this list.
WordOrder ==
    << "Analyst", "Data", "a1", "acme", "analyst", "belfast", "civil",
       "clerk", "data", "driver", "forklift", "hmrc", "hr", "london", "ni",
       "of", "python", "senior", "service", "sql", "the", "warehouse" >>

WordRank(w) == CHOOSE i \in 1..Len(WordOrder) : WordOrder[i] = w

\* str.lower() on one word
Lower(w) ==
    CASE w = "Analyst"   -> "analyst"
      [] w = "Data"      -> "data"
      [] w = "IRC1"      -> "irc1"
      [] w = "IRC2"      -> "irc2"
      [] w = "Untitled"  -> "untitled"
      [] w = "Northern"  -> "northern"
      [] w = "Ireland"   -> "ireland"
      [] w = "Civil"     -> "civil"
      [] w = "Service"   -> "service"
      [] w = "NI"        -> "ni"
      [] w = "Public"    -> "public"
      [] w = "Sector"    -> "sector"
      [] w = "Careerjet" -> "careerjet"
      [] OTHER           -> w

LowerText(text) == [i \in 1..Len(text) |-> Lower(text[i])]

\* the members of _STOPWORDS that occur in the vocabulary
_STOPWORDS == {"the", "of"}

\* len(w) of the words of the vocabulary
WordLen(w) ==
    CASE w \in {"hr", "ni", "NI", "of", "a1"} -> 2
      [] w \in {"sql", "the"}           -> 3
      [] OTHER                          -> 4   \* four characters or more

\* re.findall(r"[a-z0-9][a-z0-9\-\_]{1,}", text): the words of two or more
\* characters (every word of the vocabulary is alphanumeric once lowered)
RECURSIVE FindAll(_)
FindAll(text) ==
    IF text = <<>> THEN <<>>
    ELSE (IF WordLen(Head(text)) >= 2 THEN <<Head(text)>> ELSE <<>>)
         \o FindAll(Tail(text))

RECURSIVE KeepTokens(_)
KeepTokens(ws) ==
    IF ws = <<>> THEN <<>>
    ELSE (IF Head(ws) \notin _STOPWORDS /\ WordLen(Head(ws)) > 2
          THEN <<Head(ws)>> ELSE <<>>)
         \o KeepTokens(Tail(ws))

_tokens(text) == KeepTokens(FindAll(LowerText(text)))

\* sorted(iterable of str): ascending, duplicates kept
RECURSIVE InsertWord(_, _)
InsertWord(sorted, w) ==
    IF sorted = <<>> THEN <<w>>
    ELSE IF WordRank(w) < WordRank(Head(sorted)) THEN <<w>> \o sorted
    ELSE <<Head(sorted)>> \o InsertWord(Tail(sorted), w)

\* the list left as the set hands it over
UnsortedWords(ws) == ws

RECURSIVE SortedWords(_)
SortedWords(ws) ==
    IF ws = <<>> THEN <<>>
    ELSE InsertWord(SortedWords(Tail(ws)), Head(ws))

\* Iteration order of a Python set of strings.  It depends on the string
\* hash seed of the process: order is one of the hash orders below, a
\* permutation of the vocabulary, and the set is listed along it.
HashOrders ==
    { [i \in 1..Len(WordOrder) |-> WordOrder[Len(WordOrder) + 1 - i]],
      [i \in 1..Len(WordOrder) |-> WordOrder[((i + 6) % Len(WordOrder)) + 1]] }

RECURSIVE ListAlong(_, _)
ListAlong(order, S) ==
    IF order = <<>> THEN <<>>
    ELSE (IF Head(order) \in S THEN <<Head(order)>> ELSE <<>>)
         \o ListAlong(Tail(order), S)

\* list(a_set) / iteration over a_set under the given hash order
SetToList(S, order) == ListAlong(order, S)

\* ------------------------------------------------------------------------
\* job_source.py: similarity and score
\* ------------------------------------------------------------------------
\* A similarity is kept exactly, as the fraction num/den of its square:
\* len(inter) / sqrt(len(cv_set) * len(job_set)) has the square
\* len(inter)^2 / (len(cv_set) * len(job_set)), and 0.15 has the square 9/400.
SimZero == [num |-> 0, den |-> 1]

SimBaseline == [num |-> 9, den |-> 400]

\* the tokens of the candidate that the listing lacks
Difference(cv_set, job_set) == cv_set \ job_set

\* the tokens shared by both sets
Intersection(cv_set, job_set) == cv_set \cap job_set

\* _similarity(cv_text, job_text) under the hash order of the process
_similarity(cv_text, job_text, order) ==
    LET cv_toks  == _tokens(cv_text)
        job_toks == _tokens(job_text)
        cv_set   == Range(cv_toks)
        job_set  == Range(job_toks)
        inter    == Intersection(cv_set, job_set)
    IN  IF job_toks = <<>> THEN [sim |-> SimZero, why |-> <<>>]
        ELSE IF cv_set = {} THEN
            [sim |-> SimBaseline,
             why |-> Take(SortedWords(SetToList(job_set, order)), 10)]
        ELSE
            [sim |-> [num |-> Cardinality(inter) * Cardinality(inter),
                      den |-> Max(1, Cardinality(cv_set) * Cardinality(job_set))],
             why |-> Take(SortedWords(SetToList(inter, order)), 20)]

\* Scale of the thresholds below
CurveScale == 1000000

\* CurveThreshold[m] / CurveScale is the least sim^2 for which
\* round(40 * sim ** 0.65) >= m, that is ((m - 0.5) / 40) ** (2 / 0.65),
\* rounded up.
CurveThreshold ==
    << 2, 41, 198, 556, 1204, 2232, 3732, 5796, 8518, 11995,
       16320, 21591, 27906, 35362, 44058, 54094, 65568, 78581, 93235, 109629,
       127865, 148046, 170274, 194651, 221280, 250266, 281711, 315719, 352396,
       391845, 434172, 479481, 527878, 579469, 634360, 692657, 754466, 819895,
       889049, 962036 >>

\* int(round(40 * sim ** 0.65)) for 0 <= sim <= 1
Curved40(sim) ==
    Cardinality({m \in 1..Len(CurveThreshold) :
                    sim.num * CurveScale >= CurveThreshold[m] * sim.den})

\* the text of _human_score: f"{job.title} {job.company} {job.summary}".lower()
BonusText(job) == LowerText(Concat(<<job.title, job.company, job.summary>>))

\* the phrases of line 83 that the vocabulary can spell
PriorityPhrases == { <<"hmrc">> }

\* max(lo, min(hi, score))
ClampInt(score, lo, hi) == Max(lo, Min(hi, score))

\* the base of the curve of _human_score: its value at similarity 0
HumanBase == 55

HumanFloor == 40

HumanCeiling == 95

_human_score(sim, job) ==
    LET base  == HumanBase + Curved40(sim)
        text  == BonusText(job)
        s1    == IF Contains(text, <<"civil", "service">>) THEN base + 3 ELSE base
        score == IF \E p \in PriorityPhrases : Contains(text, p) THEN s1 + 2 ELSE s1
    IN  ClampInt(score, HumanFloor, HumanCeiling)

\* ------------------------------------------------------------------------
\* job_source.py: the two sources
\* ------------------------------------------------------------------------
\* Publish times are instants counted from 1 (later is larger); None is the
\* absent time.
None == 0

\* datetime(1970, 1, 1, tzinfo=timezone.utc), before every publish time
Epoch == 0

\* What the NIJobs page yields for one <h2> entry once lines 184-241 have
\* picked title, company, location, url, summary and time out of the markup.
\* The url is never empty: the href holds "/job/" (line 189).
NijPage(k) ==
    CASE k = 1 -> [title |-> <<"Data", "analyst">>, company |-> <<"acme">>,
                   location |-> <<"belfast">>, url |-> "u1",
                   summary |-> <<"data", "analyst", "sql", "python">>,
                   published |-> 3]
      [] k = 2 -> [title |-> <<"forklift", "driver">>, company |-> <<"acme">>,
                   location |-> <<"belfast">>, url |-> "u2",
                   summary |-> <<"forklift", "driver", "warehouse">>,
                   published |-> None]
      [] k = 3 -> [title |-> <<"senior", "analyst">>, company |-> <<"hmrc">>,
                   location |-> <<"belfast">>, url |-> "u1",
                   summary |-> <<"the", "sql">>, published |-> 2]
      [] k = 4 -> [title |-> <<"clerk">>, company |-> <<"ni", "civil", "service">>,
                   location |-> <<"belfast">>, url |-> "u3",
                   summary |-> <<"data">>, published |-> 1]
      [] k = 5 -> [title |-> <<"forklift", "driver">>, company |-> <<"acme">>,
                   location |-> <<"belfast">>, url |-> "u4",
                   summary |-> <<"warehouse">>, published |-> 4]
      [] OTHER -> [title |-> <<>>, company |-> <<>>,
                   location |-> <<>>, url |-> "u5",
                   summary |-> <<"of", "hr">>, published |-> 1]

NijPageIds == 1..6

\* One entry of the Indeed feed: the raw title already split at " - "
\* (line 279), the link, the stripped summary and the parsed publish time.
IndeedEntry(k) ==
    CASE k = 1 -> [parts |-> << <<"senior", "analyst">>, <<"acme">>, <<"belfast">> >>,
                   link |-> "u1", summary |-> <<"sql", "python">>, published |-> 5]
      [] k = 2 -> [parts |-> << <<"forklift", "driver">>, <<"acme">>, <<"belfast">> >>,
                   link |-> "", summary |-> <<"warehouse">>, published |-> 5]
      [] k = 3 -> [parts |-> << <<"Data", "analyst">>, <<"hmrc">>, <<"london">> >>,
                   link |-> "u6", summary |-> <<"sql">>, published |-> 2]
      [] k = 4 -> [parts |-> << <<"clerk">>, <<"ni", "civil", "service">>, <<"belfast">> >>,
                   link |-> "u3", summary |-> <<"data">>, published |-> 1]
      [] k = 5 -> [parts |-> << <<"forklift", "driver">>, <<"acme">>, <<"belfast">> >>,
                   link |-> "u7", summary |-> <<"warehouse">>, published |-> 4]
      [] OTHER -> [parts |-> << <<"civil", "service">>, <<>>, <<"belfast">> >>,
                   link |-> "u8", summary |-> <<>>, published |-> None]

IndeedEntryIds == 1..6

\* the members of BLOCK_COMPANY that the vocabulary can spell
BLOCK_COMPANY == { <<"ni", "civil", "service">> }

\* any(b in comp_low for b in BLOCK_COMPANY)
Blocked(job) ==
    \E b \in BLOCK_COMPANY : Contains(LowerText(job.company), b)

\* the places of line 310 that the vocabulary can spell
NiPlaces == { <<"belfast">> }

\* any(x in loc_low for x in [...])
NiIsh(job) ==
    \E x \in NiPlaces : Contains(LowerText(job.location), x)

NijobsLimit == 80

IndeedLimit == 60

NijJob(e) ==
    [source |-> "NIJobs", title |-> e.title, company |-> e.company,
     location |-> e.location, url |-> e.url, summary |-> e.summary,
     published |-> e.published]

\* the loop of fetch_nijobs over the entries of the page, jobs so far in acc
RECURSIVE NijLoop(_, _, _)
NijLoop(page, acc, limit) ==
    IF page = <<>> THEN acc
    ELSE LET job == NijJob(NijPage(Head(page)))
         IN  IF Blocked(job) THEN NijLoop(Tail(page), acc, limit)
             ELSE IF Len(acc) + 1 >= limit THEN Append(acc, job)
             ELSE NijLoop(Tail(page), Append(acc, job), limit)

fetch_nijobs(page) == NijLoop(page, <<>>, NijobsLimit)

IndeedJob(e) ==
    [source |-> "Indeed RSS",
     title |-> e.parts[1],
     company |-> IF Len(e.parts) >= 2 THEN e.parts[2] ELSE <<>>,
     location |-> IF Len(e.parts) >= 3 THEN e.parts[3] ELSE <<>>,
     url |-> e.link, summary |-> e.summary, published |-> e.published]

\* the loop of fetch_indeed_rss over the entries of the feed
RECURSIVE IndeedLoop(_, _)
IndeedLoop(entries, acc) ==
    IF entries = <<>> THEN acc
    ELSE LET job == IndeedJob(IndeedEntry(Head(entries)))
         IN  IF Blocked(job) THEN IndeedLoop(Tail(entries), acc)
             ELSE IF ~NiIsh(job) THEN IndeedLoop(Tail(entries), acc)
             ELSE IndeedLoop(Tail(entries), Append(acc, job))

fetch_indeed_rss(feed) == IndeedLoop(Take(feed, IndeedLimit), <<>>)

\* ------------------------------------------------------------------------
\* job_source.py: aggregation
\* ------------------------------------------------------------------------
\* the de-duplication loop of fetch_all_jobs, lines 343-349
RECURSIVE DedupeByUrl(_, _, _)
DedupeByUrl(jobs, seen, deduped) ==
    IF jobs = <<>> THEN deduped
    ELSE LET j == Head(jobs)
         IN  IF j.url = "" \/ j.url \in seen
             THEN DedupeByUrl(Tail(jobs), seen, deduped)
             ELSE DedupeByUrl(Tail(jobs), seen \cup {j.url}, Append(deduped, j))

\* What a request does: it raises, or it answers with the entries of a
\* page/feed.
Raised == [ok |-> FALSE, entries |-> <<>>]

Answered(entries) == [ok |-> TRUE, entries |-> entries]

\* the same aggregation with "Deduped total" taken before the
\* deduplication, from len(all_jobs)
CountBeforeDedupe(nij_in, inde_in) ==
    LET nij    == IF ~nij_in.ok THEN <<>> ELSE fetch_nijobs(nij_in.entries)
        inde   == IF ~inde_in.ok THEN <<>> ELSE fetch_indeed_rss(inde_in.entries)
        errs1  == IF ~nij_in.ok THEN <<"NIJobs failed">> ELSE <<>>
        errs2  == IF ~inde_in.ok THEN Append(errs1, "Indeed RSS failed")
                  ELSE errs1
        all_jobs == nij \o inde
        deduped  == DedupeByUrl(all_jobs, {}, <<>>)
    IN  [jobs |-> deduped,
         diag |-> [counts |-> [s \in {"NIJobs", "Indeed RSS", "Deduped total"} |->
                                 CASE s = "NIJobs" -> Len(nij)
                                   [] s = "Indeed RSS" -> Len(inde)
                                   [] OTHER -> Len(all_jobs)],
                   errors |-> errs2]]

\* fetch_all_jobs(): nij and inde are what the two calls do, Raised or the
\* fetched content.  Returns the pair (deduped, diag).
fetch_all_jobs(nij_in, inde_in) ==
    LET nij    == IF ~nij_in.ok THEN <<>> ELSE fetch_nijobs(nij_in.entries)
        inde   == IF ~inde_in.ok THEN <<>> ELSE fetch_indeed_rss(inde_in.entries)
        errs1  == IF ~nij_in.ok THEN <<"NIJobs failed">> ELSE <<>>
        errs2  == IF ~inde_in.ok THEN Append(errs1, "Indeed RSS failed")
                  ELSE errs1
        all_jobs == nij \o inde
        deduped  == DedupeByUrl(all_jobs, {}, <<>>)
    IN  [jobs |-> deduped,
         diag |-> [counts |-> [s \in {"NIJobs", "Indeed RSS", "Deduped total"} |->
                                 CASE s = "NIJobs" -> Len(nij)
                                   [] s = "Indeed RSS" -> Len(inde)
                                   [] OTHER -> Len(deduped)],
                   errors |-> errs2]]

\* ------------------------------------------------------------------------
\* job_source.py: score_jobs
\* ------------------------------------------------------------------------
\* j.published.isoformat() if j.published else "": the string carries the
\* instant of an aware datetime; <<>> is the empty string
IsoFormat(published) ==
    IF published = None THEN <<>> ELSE <<"iso", published>>

\* dateparser.parse(s) of such a string
ParseIso(s) == s[2]

\* f"{j.title}\n{j.company}\n{j.location}\n{j.summary}"
JobText(j) == Concat(<<j.title, j.company, j.location, j.summary>>)

ScoreOne(cv_text, j, order) ==
    LET sw == _similarity(cv_text, JobText(j), order)
    IN  [score |-> _human_score(sw.sim, j), why |-> sw.why,
         source |-> j.source, title |-> j.title, url |-> j.url,
         summary |-> j.summary, published |-> IsoFormat(j.published)]

\* _sort_key(r): (score, publish time or 1970)
_sort_key(r) ==
    LET dt == IF r.published # <<>> THEN ParseIso(r.published) ELSE None
    IN  <<r.score, IF dt # None THEN dt ELSE Epoch>>

\* tuple comparison a > b of two sort keys
KeyGreater(a, b) == a[1] > b[1] \/ (a[1] = b[1] /\ a[2] > b[2])

\* the same insertion without reverse=True: ascending
RECURSIVE InsertAsc(_, _)
InsertAsc(sorted, r) ==
    IF sorted = <<>> THEN <<r>>
    ELSE IF KeyGreater(_sort_key(Head(sorted)), _sort_key(r)) THEN <<r>> \o sorted
    ELSE <<Head(sorted)>> \o InsertAsc(Tail(sorted), r)

\* list.sort(key=..., reverse=True): descending and stable, elements with
\* equal keys keep their order
RECURSIVE InsertDesc(_, _)
InsertDesc(sorted, r) ==
    IF sorted = <<>> THEN <<r>>
    ELSE IF KeyGreater(_sort_key(r), _sort_key(Head(sorted))) THEN <<r>> \o sorted
    ELSE <<Head(sorted)>> \o InsertDesc(Tail(sorted), r)

RECURSIVE SortDesc(_, _)
SortDesc(rs, n) ==
    IF n = 0 THEN <<>> ELSE InsertDesc(SortDesc(rs, n - 1), rs[n])

score_jobs(cv_text, jobs, order) ==
    LET results == [i \in 1..Len(jobs) |-> ScoreOne(cv_text, jobs[i], order)]
    IN  SortDesc(results, Len(results))

\* ------------------------------------------------------------------------
\* app.py: fetchers
\* ------------------------------------------------------------------------
MAX_ITEMS_PER_SOURCE == 50

\* the published string of a feed entry; <<>> is the empty string
PubString(published) ==
    IF published = None THEN <<>> ELSE <<"pub", published>>

\* One <a href> of the NICS vacancies page: its text, its href (absolute
\* here, so that line 193 keeps it) and whether the href holds
\* "vacancies-details.aspx".
NicsAnchor(k) ==
    CASE k = 1 -> [text |-> <<"IRC1", "Data", "analyst">>,
                   href |-> "https://n/1", details |-> TRUE]
      [] k = 2 -> [text |-> <<"IRC2", "clerk">>,
                   href |-> "https://n/2", details |-> TRUE]
      [] OTHER -> [text |-> <<"hr">>,
                   href |-> "https://n/about", details |-> FALSE]

NicsAnchorIds == 1..3

\* "IRC" in text
HasIrc(text) == \E i \in 1..Len(text) : text[i] \in {"IRC1", "IRC2"}

NicsJob(a) ==
    [source |-> "NICS Recruitment", title |-> a.text, link |-> a.href,
     location |-> <<"Northern", "Ireland">>,
     organisation |-> <<"Northern", "Ireland", "Civil", "Service",
                        "NI", "Public", "Sector">>,
     summary |-> <<>>, closing |-> <<>>, published |-> <<>>]

\* the loop over the anchors, lines 189-207
RECURSIVE NicsLoop(_)
NicsLoop(anchors) ==
    IF anchors = <<>> THEN <<>>
    ELSE LET a == NicsAnchor(Head(anchors))
         IN  (IF a.details /\ HasIrc(a.text) THEN <<NicsJob(a)>> ELSE <<>>)
             \o NicsLoop(Tail(anchors))

\* the de-duplication by link of fetch_nics_jobs, lines 210-215
RECURSIVE DedupeByLink(_, _, _)
DedupeByLink(js, seen, deduped) ==
    IF js = <<>> THEN deduped
    ELSE LET j == Head(js)
         IN  IF j.link # "" /\ j.link \notin seen
             THEN DedupeByLink(Tail(js), seen \cup {j.link}, Append(deduped, j))
             ELSE DedupeByLink(Tail(js), seen, deduped)

\* fetch_nics_jobs(): the request raises (and [] is returned) or answers
fetch_nics_jobs(request) ==
    IF ~request.ok THEN <<>>
    ELSE Take(DedupeByLink(NicsLoop(request.entries), {}, <<>>),
              MAX_ITEMS_PER_SOURCE)

\* One entry of a Careerjet feed: cleaned title, link, summary text and
\* publish time.
CareerjetEntry(k) ==
    CASE k = 1 -> [title |-> <<"Data", "analyst">>, link |-> "https://c/1",
                   summary |-> <<"data", "analyst", "sql">>, published |-> 3]
      [] k = 2 -> [title |-> <<"forklift", "driver">>, link |-> "https://c/2",
                   summary |-> <<"forklift", "driver", "warehouse">>,
                   published |-> 1]
      [] k = 3 -> [title |-> <<"senior", "analyst">>, link |-> "https://c/1",
                   summary |-> <<"sql", "python">>, published |-> 2]
      [] k = 4 -> [title |-> <<>>, link |-> "",
                   summary |-> <<"warehouse">>, published |-> None]
      [] OTHER -> [title |-> <<"forklift", "driver">>, link |-> "https://c/20",
                   summary |-> <<"forklift", "driver", "warehouse">>,
                   published |-> 4]

CareerjetEntryIds == 1..5

CareerjetJob(e, source_name) ==
    [source |-> source_name,
     title |-> IF e.title # <<>> THEN e.title ELSE <<"Untitled">>,
     link |-> e.link,
     location |-> <<"Northern", "Ireland">>,
     organisation |-> <<"Careerjet", "various">>,
     summary |-> e.summary, closing |-> <<>>,
     published |-> PubString(e.published)]

\* fetch_careerjet_jobs(rss_url, source_name)
fetch_careerjet_jobs(request, source_name) ==
    IF ~request.ok THEN <<>>
    ELSE LET entries == Take(request.entries, MAX_ITEMS_PER_SOURCE)
         IN  [i \in 1..Len(entries) |->
                 CareerjetJob(CareerjetEntry(entries[i]), source_name)]

\* ------------------------------------------------------------------------
\* app.py: the "Find matching jobs" flow up to the ranking
\* ------------------------------------------------------------------------
\* the de-duplication by (link, title), lines 334-340
RECURSIVE DedupeByLinkTitle(_, _, _)
DedupeByLinkTitle(js, seen, deduped) ==
    IF js = <<>> THEN deduped
    ELSE LET j   == Head(js)
             key == <<j.link, j.title>>
         IN  IF key \notin seen
             THEN DedupeByLinkTitle(Tail(js), seen \cup {key}, Append(deduped, j))
             ELSE DedupeByLinkTitle(Tail(js), seen, deduped)

\* lines 323-351: the three fetches, the merge, the de-duplication and the
\* counts and URLs that the page shows as its diagnostics
Gather(nics_req, civil_req, general_req) ==
    LET nics       == fetch_nics_jobs(nics_req)
        cj_general == fetch_careerjet_jobs(general_req, "Careerjet (NI - matched)")
        cj_civil   == fetch_careerjet_jobs(civil_req,
                                           "Careerjet (NI - civil service focus)")
        all        == nics \o cj_civil \o cj_general
    IN  [jobs |-> DedupeByLinkTitle(all, {}, <<>>),
         diag |-> [counts |-> [s \in {"NICS", "Careerjet(civil-focus)",
                                      "Careerjet(general)"} |->
                                 CASE s = "NICS" -> Len(nics)
                                   [] s = "Careerjet(civil-focus)" -> Len(cj_civil)
                                   [] OTHER -> Len(cj_general)],
                   urls |-> <<"rss_civil", "rss_general", "NICS_VACANCIES_URL">>]]

\* ------------------------------------------------------------------------
\* app.py: calibrate_score
\* ------------------------------------------------------------------------
\* Cosine similarities are kept in thousandths.
CosScale == 1000

\* the similarities the vectorizer may answer with
CosLevels == {0, 30, 90, 300, 1000}

\* floor(6000 * (c / 1000) ** 0.55), a hundred times 60 * cos_sim ** 0.55
Pow055(c) ==
    CASE c = 0    -> 0
      [] c = 30   -> 872
      [] c = 90   -> 1595
      [] c = 300  -> 3094
      [] c = 1000 -> 6000

\* Python's round() of h/100 (half to even); unless exact, h stands for a
\* value strictly between h/100 and (h+1)/100
RoundHundredths(h, exact) ==
    LET q   == h \div 100
        rem == h % 100
    IN  IF rem > 50 THEN q + 1
        ELSE IF rem < 50 THEN q
        ELSE IF exact /\ q % 2 = 0 THEN q
        ELSE q + 1

\* the base of the curve of calibrate_score: its value at similarity 0
\* before the jitter
CalibrateBase == 35

CalibrateFloor == 30

CalibrateCeiling == 98

\* clamp(x, lo, hi)
clamp(x, lo, hi) == Max(lo, Min(hi, x))

\* calibrate_score(cos_sim, seed), h_mod the value of h % 700 for the seed:
\* base = 35 + 60 * cos_sim ** 0.55, jitter = h_mod / 100 - 3.5
calibrate_score(cos_sim, h_mod) ==
    LET hundredths == CalibrateBase * 100 + Pow055(cos_sim) + h_mod - 350
        score      == RoundHundredths(hundredths, cos_sim \in {0, CosScale})
    IN  clamp(score, CalibrateFloor, CalibrateCeiling)

\* int(md5(seed).hexdigest(), 16) % 700 for the seed
\* f"{sha256(cv_text)[:10]}|{link}|{title}", words joined by one blank
Md5Mod700(cv_text, link, title) ==
    LET seed == <<cv_text, link, title>>
    IN  CASE seed = <<<<"the", "hr">>, "https://n/1", <<"IRC1", "Data", "analyst">>>> -> 691
          [] seed = <<<<"the", "hr">>, "https://n/2", <<"IRC2", "clerk">>>> -> 120
          [] seed = <<<<"the", "hr">>, "https://c/1", <<"Data", "analyst">>>> -> 141
          [] seed = <<<<"the", "hr">>, "https://c/2", <<"forklift", "driver">>>> -> 611
          [] seed = <<<<"the", "hr">>, "https://c/1", <<"senior", "analyst">>>> -> 531
          [] seed = <<<<"the", "hr">>, "", <<"Untitled">>>> -> 433
          [] seed = <<<<"the", "hr">>, "https://c/20", <<"forklift", "driver">>>> -> 612
          [] seed = <<<<"Data", "analyst", "sql", "python">>, "https://n/1", <<"IRC1", "Data", "analyst">>>> -> 471
          [] seed = <<<<"Data", "analyst", "sql", "python">>, "https://n/2", <<"IRC2", "clerk">>>> -> 323
          [] seed = <<<<"Data", "analyst", "sql", "python">>, "https://c/1", <<"Data", "analyst">>>> -> 553
          [] seed = <<<<"Data", "analyst", "sql", "python">>, "https://c/2", <<"forklift", "driver">>>> -> 238
          [] seed = <<<<"Data", "analyst", "sql", "python">>, "https://c/1", <<"senior", "analyst">>>> -> 308
          [] seed = <<<<"Data", "analyst", "sql", "python">>, "", <<"Untitled">>>> -> 652
          [] seed = <<<<"Data", "analyst", "sql", "python">>, "https://c/20", <<"forklift", "driver">>>> -> 221
          [] seed = <<<<"civil", "service", "belfast">>, "https://n/1", <<"IRC1", "Data", "analyst">>>> -> 472
          [] seed = <<<<"civil", "service", "belfast">>, "https://n/2", <<"IRC2", "clerk">>>> -> 125
          [] seed = <<<<"civil", "service", "belfast">>, "https://c/1", <<"Data", "analyst">>>> -> 104
          [] seed = <<<<"civil", "service", "belfast">>, "https://c/2", <<"forklift", "driver">>>> -> 67
          [] seed = <<<<"civil", "service", "belfast">>, "https://c/1", <<"senior", "analyst">>>> -> 596
          [] seed = <<<<"civil", "service", "belfast">>, "", <<"Untitled">>>> -> 539
          [] seed = <<<<"civil", "service", "belfast">>, "https://c/20", <<"forklift", "driver">>>> -> 54
          [] seed = <<<<"the", "hr">>, "https://c/9", <<>>>> -> 376
          [] seed = <<<<"Data", "analyst", "sql", "python">>, "https://c/9", <<>>>> -> 478
          [] seed = <<<<"civil", "service", "belfast">>, "https://c/9", <<>>>> -> 147

\* ------------------------------------------------------------------------
\* app.py: rank_jobs
\* ------------------------------------------------------------------------
\* the words of the vocabulary in scikit-learn's English stop word list
ENGLISH_STOP_WORDS == {"the", "of"}

\* The analyzer of TfidfVectorizer(stop_words="english", ngram_range=(1, 2)):
\* lower case, tokens of two or more characters, stop words removed, then
\* the unigrams followed by the bigrams of neighbouring tokens.
RECURSIVE TfidfTokens(_)
TfidfTokens(text) ==
    IF text = <<>> THEN <<>>
    ELSE (IF WordLen(Head(text)) >= 2 /\ Lower(Head(text)) \notin ENGLISH_STOP_WORDS
          THEN <<Lower(Head(text))>> ELSE <<>>)
         \o TfidfTokens(Tail(text))

Features(text) ==
    LET toks == TfidfTokens(text)
    IN  [i \in 1..Len(toks) |-> <<toks[i]>>]
        \o [i \in 1..(Len(toks) - 1) |-> <<toks[i], toks[i + 1]>>]

\* term frequency of a feature
Tf(f, feats) == Cardinality({i \in 1..Len(feats) : feats[i] = f})

RECURSIVE SumOver(_, _, _)
SumOver(S, cvf, jobf) ==
    IF S = {} THEN 0
    ELSE LET f == CHOOSE x \in S : TRUE
         IN  Tf(f, cvf) * Tf(f, jobf) + SumOver(S \ {f}, cvf, jobf)

\* dot product of the two term-frequency vectors
Dot(cvf, jobf) == SumOver(Range(cvf) \cap Range(jobf), cvf, jobf)

\* clean_text(f"{j.title}. {j.organisation}. {j.location}. {j.summary}")
AppDoc(j) == Concat(<<j.title, j.organisation, j.location, j.summary>>)

\* Every idf weight ln((1 + n) / (1 + df)) + 1 lies between 1 and
\* 1 + ln((1 + n) / 2); its fourth power stays below this number for
\* batches of up to ten documents.
IdfSpread4 == 54

\* What cosine_similarity can answer for a listing, in thousandths: 0
\* exactly when the two documents share no feature, and otherwise at least
\* Dot / (idf spread ^ 2 * |cv| * |job|).
CosAdmissible(c, cvf, jobf) ==
    LET a == Dot(cvf, jobf)
        d == IdfSpread4 * Dot(cvf, cvf) * Dot(jobf, jobf)
    IN  IF a = 0 THEN c = 0
        ELSE c > 0 /\ c * c >= (a * a * CosScale * CosScale + d - 1) \div d

\* the features of both documents (the non-zero entries of overlap)
Overlap(cvf, jobf) == Range(cvf) \cap Range(jobf)

\* top: the (at most six) overlap features of largest weight
TopAdmissible(top, cvf, jobf) ==
    /\ top \subseteq Overlap(cvf, jobf)
    /\ Cardinality(top) = Min(6, Cardinality(Overlap(cvf, jobf)))

\* a set of features as a list, in the order of the candidate's features
RECURSIVE ListFeatures(_, _)
ListFeatures(feats, S) ==
    IF feats = <<>> THEN <<>>
    ELSE (IF Head(feats) \in S THEN <<Head(feats)>> ELSE <<>>)
         \o ListFeatures(Tail(feats), S \ {Head(feats)})

\* x[1] > y[1] of the sort key of rank_jobs
ScoreGreater(x, y) == x.score > y.score

\* ranked.sort(key=lambda x: x[1], reverse=True): stable
RECURSIVE InsertRanked(_, _)
InsertRanked(sorted, r) ==
    IF sorted = <<>> THEN <<r>>
    ELSE IF ScoreGreater(r, Head(sorted)) THEN <<r>> \o sorted
    ELSE <<Head(sorted)>> \o InsertRanked(Tail(sorted), r)

RECURSIVE SortRanked(_, _)
SortRanked(rs, n) ==
    IF n = 0 THEN <<>> ELSE InsertRanked(SortRanked(rs, n - 1), rs[n])

\* one (job, score, cos, terms) tuple
Ranked(j, score, c, terms) ==
    [score |-> score, cos |-> c, why |-> terms, source |-> j.source,
     title |-> j.title, url |-> j.link, summary |-> j.summary,
     published |-> j.published]

\* the answers of scikit-learn that are possible for one listing: its
\* cosine similarity and its heaviest overlap features
AnswersFor(cvf, jobf) ==
    { [cos |-> c, top |-> t] :
        c \in {x \in CosLevels : CosAdmissible(x, cvf, jobf)},
        t \in {y \in SUBSET Overlap(cvf, jobf) : TopAdmissible(y, cvf, jobf)} }

\* all sequences that take their i-th element from the i-th set
RECURSIVE Product(_)
Product(sets) ==
    IF sets = <<>> THEN {<<>>}
    ELSE {<<x>> \o rest : x \in Head(sets), rest \in Product(Tail(sets))}

\* the answers that are possible for the batch
Answers(cv_text, js) ==
    Product([i \in 1..Len(js) |->
                AnswersFor(Features(cv_text), Features(AppDoc(js[i])))])

\* rank_jobs(cv_text, jobs); answer[i] is what scikit-learn computes for
\* listing i
rank_jobs(cv_text, js, answer) ==
    IF cv_text = <<>> THEN
        [i \in 1..Len(js) |-> Ranked(js[i], 0, 0, <<>>)]
    ELSE
        LET cvf    == Features(cv_text)
            ranked == [i \in 1..Len(js) |->
                         Ranked(js[i],
                                calibrate_score(answer[i].cos,
                                    Md5Mod700(cv_text, js[i].link, js[i].title)),
                                answer[i].cos,
                                ListFeatures(cvf, answer[i].top))]
        IN  SortRanked(ranked, Len(ranked))

\* ------------------------------------------------------------------------
\* Inputs
\* ------------------------------------------------------------------------
\* candidate texts: empty, without tokens, the analyst, the civil servant
CvTexts ==
    { <<>>, <<"the", "hr">>, <<"Data", "analyst", "sql", "python">>,
      <<"civil", "service", "belfast">> }

NijOutcomes == {Raised} \cup {Answered(e) : e \in SeqsUpTo(NijPageIds, MaxPage)}

IndeedOutcomes ==
    {Raised} \cup {Answered(e) : e \in SeqsUpTo(IndeedEntryIds, MaxEntries)}

NicsOutcomes ==
    {Raised} \cup {Answered(e) : e \in SeqsUpTo(NicsAnchorIds, MaxFeed)}

CareerjetOutcomes ==
    {Raised} \cup {Answered(e) : e \in SeqsUpTo(CareerjetEntryIds, MaxFeed)}

\* a Job whose title, organisation, location and summary hold no text
BlankListing ==
    [source |-> "NICS Recruitment", title |-> <<>>, organisation |-> <<>>,
     location |-> <<>>, link |-> "https://c/9", summary |-> <<>>,
     closing |-> <<>>, published |-> <<>>]

\* position of the "Max results" slider: its least value
MaxResultsChoices == {10}

\* ------------------------------------------------------------------------
\* State
\* ------------------------------------------------------------------------
VARIABLES
    prog,       \* which program runs: "job_source" or "app"
    pc,         \* its position
    nij_in,     \* what the NIJobs request did: Raised or the page entries
    inde_in,    \* what the Indeed request did: Raised or the feed entries
    nics_in,    \* what the NICS request did
    civil_in,   \* what the request of the civil service feed did
    general_in, \* what the request of the general feed did
    jobs,       \* the de-duplicated listings handed to the scorer
    diag,       \* the diagnostics of the aggregation
    cv_text,    \* the candidate text of the scoring call
    results,    \* the ranked results of the scoring call
    results2    \* the results of a repeated call with the same arguments

vars == <<prog, pc, nij_in, inde_in, nics_in, civil_in, general_in,
          jobs, diag, cv_text, results, results2>>

requests == <<nij_in, inde_in, nics_in, civil_in, general_in>>

NoDiag == [counts |-> <<>>]

Init ==
    /\ prog \in {"job_source", "app"}
    /\ pc = "start"
    /\ nij_in = Answered(<<>>)
    /\ inde_in = Answered(<<>>)
    /\ nics_in = Answered(<<>>)
    /\ civil_in = Answered(<<>>)
    /\ general_in = Answered(<<>>)
    /\ jobs = <<>>
    /\ diag = NoDiag
    /\ cv_text = <<>>
    /\ results = <<>>
    /\ results2 = <<>>

\* jobs, diag = fetch_all_jobs()
FetchAllJobs ==
    /\ prog = "job_source" /\ pc = "start"
    /\ \E n \in NijOutcomes, i \in IndeedOutcomes :
         LET r == fetch_all_jobs(n, i)
         IN  /\ nij_in' = n
             /\ inde_in' = i
             /\ jobs' = r.jobs
             /\ diag' = r.diag
    /\ pc' = "fetched"
    /\ UNCHANGED <<prog, nics_in, civil_in, general_in, cv_text, results, results2>>

\* results = score_jobs(cv_text, jobs)
ScoreJobs ==
    /\ prog = "job_source" /\ pc = "fetched"
    /\ \E cv \in CvTexts, order \in HashOrders :
         /\ cv_text' = cv
         /\ results' = score_jobs(cv, jobs, order)
    /\ pc' = "scored"
    /\ UNCHANGED <<prog, requests, jobs, diag, results2>>

\* the same call once more, possibly in another process (another hash seed)
ScoreJobsAgain ==
    /\ prog = "job_source" /\ pc = "scored"
    /\ \E order \in HashOrders :
         results2' = score_jobs(cv_text, jobs, order)
    /\ pc' = "rescored"
    /\ UNCHANGED <<prog, requests, jobs, diag, cv_text, results>>

\* "Find matching jobs" pressed without a CV: lines 303-306
GoWithoutCv ==
    /\ prog = "app" /\ pc = "start"
    /\ cv_text' = <<>>
    /\ pc' = "stopped"
    /\ UNCHANGED <<prog, requests, jobs, diag, results, results2>>

\* "Find matching jobs" pressed with a CV: lines 303-344
GoGather ==
    /\ prog = "app" /\ pc = "start"
    /\ \E cv \in CvTexts \ {<<>>} :
       \E n \in NicsOutcomes, c \in CareerjetOutcomes, g \in CareerjetOutcomes :
         LET r == Gather(n, c, g)
         IN  /\ cv_text' = cv
             /\ nics_in' = n
             /\ civil_in' = c
             /\ general_in' = g
             /\ jobs' = r.jobs
             /\ diag' = r.diag
             /\ pc' = IF r.jobs = <<>> THEN "no_jobs" ELSE "deduped"
    /\ UNCHANGED <<prog, nij_in, inde_in, results, results2>>

\* ranked = rank_jobs(cv_text, deduped)[:max_results], line 346
GoRank ==
    /\ prog = "app" /\ pc = "deduped"
    /\ \E answer \in Answers(cv_text, jobs), max_results \in MaxResultsChoices :
         results' = Take(rank_jobs(cv_text, jobs, answer), max_results)
    /\ pc' = "ranked"
    /\ UNCHANGED <<prog, requests, jobs, diag, cv_text, results2>>

\* rank_jobs(cv_text, jobs) called on the listings with a candidate text
\* that is empty once cleaned, the case of lines 226-228
RankJobsBlank ==
    /\ prog = "app" /\ pc = "deduped"
    /\ cv_text' = <<>>
    /\ results' = rank_jobs(<<>>, jobs, <<>>)
    /\ pc' = "ranked"
    /\ UNCHANGED <<prog, requests, jobs, diag, results2>>

\* rank_jobs(cv_text, [job]) called with a candidate text and a listing
\* that holds no text
RankJobsCall ==
    /\ prog = "app" /\ pc = "start"
    /\ \E cv \in CvTexts \ {<<>>} :
       \E answer \in Answers(cv, <<BlankListing>>) :
         /\ cv_text' = cv
         /\ jobs' = <<BlankListing>>
         /\ results' = rank_jobs(cv, <<BlankListing>>, answer)
    /\ pc' = "called"
    /\ UNCHANGED <<prog, requests, diag, results2>>

Next ==
    \/ FetchAllJobs
    \/ ScoreJobs
    \/ ScoreJobsAgain
    \/ GoWithoutCv
    \/ GoGather
    \/ GoRank
    \/ RankJobsBlank
    \/ RankJobsCall

Spec == Init /\ [][Next]_vars

\* ------------------------------------------------------------------------
\* Vocabulary of the properties
\* ------------------------------------------------------------------------
\* a scoring call has returned
Scored == pc \in {"scored", "rescored", "ranked"}

\* the aggregation has returned
Aggregated == pc \in {"fetched", "scored", "rescored", "deduped", "no_jobs", "ranked"}

\* the batches of the sources, in the order in which they are merged
SourceBatches ==
    IF prog = "job_source"
    THEN << IF nij_in.ok THEN fetch_nijobs(nij_in.entries) ELSE <<>>,
            IF inde_in.ok THEN fetch_indeed_rss(inde_in.entries) ELSE <<>> >>
    ELSE << fetch_nics_jobs(nics_in),
            fetch_careerjet_jobs(civil_in, "Careerjet (NI - civil service focus)"),
            fetch_careerjet_jobs(general_in, "Careerjet (NI - matched)") >>

UrlOf(j) == IF prog = "job_source" THEN j.url ELSE j.link

\* the publish instant carried by a result, 0 when absent
PubTime(r) == IF r.published = <<>> THEN 0 ELSE r.published[2]

\* the band of the scorer of the running program
Floor == IF prog = "job_source" THEN HumanFloor ELSE CalibrateFloor

Ceiling == IF prog = "job_source" THEN HumanCeiling ELSE CalibrateCeiling

\* the error messages held by the diagnostics
DiagErrors == IF "errors" \in DOMAIN diag THEN diag.errors ELSE <<>>

\* position of the listing of a result in the list handed to the scorer
InputPos(r) ==
    CHOOSE i \in 1..Len(jobs) : UrlOf(jobs[i]) = r.url /\ jobs[i].title = r.title

\* ------------------------------------------------------------------------
\* Properties
\* ------------------------------------------------------------------------
\* C1: the results of the ranking operation (score_jobs, rank_jobs) are
\* sorted by non-increasing score: every result scores at least as much as
\* its successor.
C1_SortedByScore ==
    Scored =>
        \A i \in 1..(Len(results) - 1) : results[i].score >= results[i + 1].score

\* C1 witness: a ranking of three or more listings with different scores
\* whose best listing was not the first of the input.
C1_Witness ==
    /\ Scored
    /\ Len(results) >= 3
    /\ results[1].score > results[Len(results)].score
    /\ InputPos(results[1]) > 1

\* C2: the score of every result lies in the band of its scorer, 40..95 for
\* score_jobs and 30..98 for rank_jobs, whatever the candidate text.
C2_ScoreInBand ==
    Scored =>
        \A i \in 1..Len(results) :
            Floor <= results[i].score /\ results[i].score <= Ceiling

\* C3: when two listings of the concatenated batches have the same url and
\* different titles, the merged list holds exactly one listing with that
\* url, the one met first, and the survivors keep their order.
C3_OneListingPerUrl ==
    Aggregated =>
        LET all == Concat(SourceBatches)
        IN  \A a, b \in 1..Len(all) :
                (a < b /\ UrlOf(all[a]) = UrlOf(all[b])
                       /\ all[a].title # all[b].title) =>
                    LET first == CHOOSE k \in 1..Len(all) :
                                    /\ UrlOf(all[k]) = UrlOf(all[a])
                                    /\ \A m \in 1..(k - 1) :
                                           UrlOf(all[m]) # UrlOf(all[a])
                    IN  /\ Cardinality({k \in 1..Len(jobs) :
                                UrlOf(jobs[k]) = UrlOf(all[a])}) = 1
                        /\ \E k \in 1..Len(jobs) : jobs[k] = all[first]
                        /\ \A i, k \in 1..Len(jobs) :
                               i < k => \E x, y \in 1..Len(all) :
                                   x < y /\ all[x] = jobs[i] /\ all[y] = jobs[k]

\* C4: when the blocked-organisation filter (and the location filter of the
\* feed) would remove every listing of a nonempty answer of a source, the
\* listings are all kept and the diagnostics record the bypass.
C4_FilterFallback ==
    (prog = "job_source" /\ Aggregated) =>
        /\ (nij_in.ok /\ nij_in.entries # <<>>
              /\ \A i \in 1..Len(nij_in.entries) :
                     Blocked(NijJob(NijPage(nij_in.entries[i])))) =>
                (/\ diag.counts["NIJobs"] = Len(nij_in.entries)
                 /\ "bypassed" \in DOMAIN diag)
        /\ (inde_in.ok /\ inde_in.entries # <<>>
              /\ \A i \in 1..Len(inde_in.entries) :
                     LET j == IndeedJob(IndeedEntry(inde_in.entries[i]))
                     IN  Blocked(j) \/ ~NiIsh(j)) =>
                (/\ diag.counts["Indeed RSS"] = Len(inde_in.entries)
                 /\ "bypassed" \in DOMAIN diag)

\* the requests of the running program with the names of their counts and
\* of their error messages
Sources ==
    IF prog = "job_source"
    THEN << [req |-> nij_in, count |-> "NIJobs", error |-> "NIJobs failed"],
            [req |-> inde_in, count |-> "Indeed RSS",
             error |-> "Indeed RSS failed"] >>
    ELSE << [req |-> nics_in, count |-> "NICS", error |-> "NICS failed"],
            [req |-> civil_in, count |-> "Careerjet(civil-focus)",
             error |-> "Careerjet(civil-focus) failed"],
            [req |-> general_in, count |-> "Careerjet(general)",
             error |-> "Careerjet(general) failed"] >>

\* C5: when the request of a source raises, the aggregation still returns:
\* the failure is an error message of the diagnostics, the count of the
\* source is 0, and the listings of the other sources are merged and
\* returned, for every combination of failing sources.
C5_FailureIsolated ==
    Aggregated =>
        \A k \in 1..Len(Sources) :
            ~Sources[k].req.ok =>
                /\ diag.counts[Sources[k].count] = 0
                /\ \E m \in 1..Len(DiagErrors) : DiagErrors[m] = Sources[k].error
                /\ \A i \in 1..Len(jobs) :
                       \E o \in 1..Len(Sources) :
                           /\ Sources[o].req.ok
                           /\ \E x \in 1..Len(SourceBatches[o]) :
                                  SourceBatches[o][x] = jobs[i]

\* C6: with a candidate text that is empty or without tokens, every result
\* of a listing with text has the floor of the band as its score and no
\* matched terms.
C6_EmptyCandidateFloor ==
    (Scored /\ _tokens(cv_text) = <<>>) =>
        \A i \in 1..Len(results) :
            results[i].summary # <<>> =>
                results[i].score = Floor /\ results[i].why = <<>>

\* C7: a second call of score_jobs with the same candidate text and the
\* same listings returns the same scores and the same evidence terms in the
\* same order, whatever the hash seeds of the two processes.
C7_Deterministic ==
    pc = "rescored" => results2 = results

\* C7 witness: a repeated call whose results carry evidence of two terms or
\* more, so that their order matters.
C7_Witness ==
    /\ pc = "rescored"
    /\ \E i \in 1..Len(results2) : Len(results2[i].why) >= 2

\* C8: every listing handed to the scorer has a non-empty url.
C8_UrlNonEmpty ==
    Aggregated => \A i \in 1..Len(jobs) : UrlOf(jobs[i]) # ""

\* the terms "data", "analyst" and "sql" as the running program reports them
ScenarioTerms ==
    IF prog = "job_source" THEN {"data", "analyst", "sql"}
    ELSE {<<"data">>, <<"analyst">>, <<"sql">>}

\* the listing of the result is the relevant one of the scenario
Relevant(r) ==
    /\ Contains(r.summary, <<"data", "analyst">>)
    /\ Contains(r.summary, <<"sql">>)

\* the listing of the result is the unrelated one of the scenario
Unrelated(r) == r.summary = <<"forklift", "driver", "warehouse">>

\* C9: for the candidate "data analyst sql python", a listing whose summary
\* holds "data analyst" and "sql" scores strictly more than the listing
\* "forklift driver warehouse", and its matched terms include "data",
\* "analyst" or "sql".
C9_RelevantBeatsUnrelated ==
    (Scored /\ LowerText(cv_text) = <<"data", "analyst", "sql", "python">>) =>
        \A a, b \in 1..Len(results) :
            (Relevant(results[a]) /\ Unrelated(results[b])) =>
                /\ results[a].score > results[b].score
                /\ \E t \in 1..Len(results[a].why) :
                       results[a].why[t] \in ScenarioTerms

\* C9 witness: the scenario has been ranked by rank_jobs, the relevant
\* listing with the least similarity its text admits.
C9_Witness ==
    /\ prog = "app" /\ pc = "ranked"
    /\ LowerText(cv_text) = <<"data", "analyst", "sql", "python">>
    /\ Len(results) = 2
    /\ Relevant(results[1]) /\ results[1].cos = 90
    /\ Unrelated(results[2])

\* C10: among results of equal score the more recently published comes
\* first, a listing without publish time last, and results equal in score
\* and publish time keep the order of the input.
C10_TieBreak ==
    Scored =>
        \A i, k \in 1..Len(results) :
            (i < k /\ results[i].score = results[k].score) =>
                /\ PubTime(results[i]) >= PubTime(results[k])
                /\ PubTime(results[i]) = PubTime(results[k]) =>
                       InputPos(results[i]) < InputPos(results[k])

\* the listing of a result: the one of the scored list with its url and title
ListingOf(r) == jobs[InputPos(r)]

\* the text of a listing as its scorer reads it
ListingText(j) == IF prog = "job_source" THEN JobText(j) ELSE AppDoc(j)

\* the text of the listing yields no token for its scorer
NoTokens(j) ==
    IF prog = "job_source" THEN _tokens(ListingText(j)) = <<>>
    ELSE TfidfTokens(ListingText(j)) = <<>>

\* the raw similarity of the listing of a result is 0
RawSimilarityZero(r) ==
    IF prog = "job_source"
    THEN \A order \in HashOrders :
             _similarity(cv_text, ListingText(ListingOf(r)), order).sim = SimZero
    ELSE r.cos = 0

\* what "the calibration floor" of the running scorer can mean: the lower
\* bound of its clamp, or the base of its curve
CalibrationFloors ==
    IF prog = "job_source" THEN {HumanFloor, HumanBase}
    ELSE {CalibrateFloor, CalibrateBase}

\* C11: a result whose listing text is empty or yields no tokens has raw
\* similarity 0 whatever the candidate text, has no evidence terms, and has
\* the calibration floor of its scorer as its score.
C11_EmptyListingFloor ==
    (Scored \/ pc = "called") =>
        \A i \in 1..Len(results) :
            NoTokens(ListingOf(results[i])) =>
                /\ RawSimilarityZero(results[i])
                /\ results[i].why = <<>>
                /\ results[i].score \in CalibrationFloors

\* the terms that occur in a text, as the running scorer reports terms:
\* lower-case words for score_jobs, features for rank_jobs
TermsOf(text) ==
    IF prog = "job_source" THEN Range(LowerText(text))
    ELSE Range(Features(text))

\* C12: the evidence terms of every result number at most 20 and each of
\* them occurs in the candidate text and in the text of the listing, also
\* when the candidate text has no usable tokens.
C12_EvidenceInOverlap ==
    (Scored \/ pc = "called") =>
        \A i \in 1..Len(results) :
            LET why == results[i].why
            IN  /\ Len(why) <= 20
                /\ \A t \in 1..Len(why) :
                       /\ why[t] \in TermsOf(cv_text)
                       /\ why[t] \in TermsOf(ListingText(ListingOf(results[i])))

\* the sources of fetch_all_jobs whose request raised
FailedSources == {k \in 1..Len(Sources) : ~Sources[k].req.ok}

\* C13: after fetch_all_jobs, whatever sources failed, the diagnostics hold
\* a count for NIJobs and for Indeed RSS, as many error messages as sources
\* that failed, and a "Deduped total" that is the length of the returned
\* list and at most the sum of the counts of the two sources.
C13_DiagConsistent ==
    (prog = "job_source" /\ Aggregated) =>
        /\ {"NIJobs", "Indeed RSS"} \subseteq DOMAIN diag.counts
        /\ Len(diag.errors) = Cardinality(FailedSources)
        /\ diag.counts["Deduped total"] = Len(jobs)
        /\ diag.counts["Deduped total"]
              <= diag.counts["NIJobs"] + diag.counts["Indeed RSS"]

\* C13 witness: one source failed and the other answered two listings with
\* the same url, so that the deduplication dropped one of them.
C13_Witness ==
    /\ prog = "job_source" /\ pc = "fetched"
    /\ Cardinality(FailedSources) = 1
    /\ Len(diag.errors) = 1
    /\ Len(jobs) = 1
    /\ diag.counts["NIJobs"] + diag.counts["Indeed RSS"] = 2

====
